---- MODULE Spec2Model ----
(***************************************************************************)
(* Instruction decoder, addressing engine and DDRAM projection of the      *)
(* HD44780 software model (hd44780/hd44780.py).                            *)
(*                                                                         *)
(* Python values kept apart by the model:                                  *)
(*   - an int n is the number n;                                           *)
(*   - a str of one character with code point c is PyStr(c) = 256 + c,     *)
(*     which is different from every byte value, as 'H' != 72 in Python;   *)
(*   - the argument of write_data is a record [t, v]: its Python type      *)
(*     ("int", "str" or "bytes") and the code of its first element.        *)
(*   - a return value is a sequence: << >> for None, <<v>> for a value.    *)
(*                                                                         *)
(* last is the call made last, pre the object as it was before that call,  *)
(* ret and exc what the call returned or raised, fired the branches of     *)
(* the decoder it took.                                                    *)
(***************************************************************************)
EXTENDS Integers, Sequences, FiniteSets, TLC

VARIABLES
    lines, segments,
    ddram, row_visible_address, ddram_pointer,
    display_on, cursor_ptr, cursor_active, cursor_visible, cursor_blinking,
    entry_mode_dir, entry_mode_shift,
    cursor_char, grid, fset, running, cgram_address,
    last, ret, exc, fired, driven, steps, pre,
    pkt, pkt_args, pkt_cmd,
    caller, thread, seen, commit

cfg  == <<lines, segments>>
prog == <<ddram, row_visible_address, ddram_pointer,
          display_on, cursor_ptr, cursor_active, cursor_visible, cursor_blinking,
          entry_mode_dir, entry_mode_shift, cursor_char, grid, fset, running,
          cgram_address>>
hist == <<last, ret, exc, fired, driven, steps, pre>>
\* an HD44780Packet, the command it was made from, the command it gives back
packet == <<pkt, pkt_args, pkt_cmd>>
\* the caller's and the render thread's position in their code, what the thread
\* read last, and the pointer and table as the last finished call left them
threads == <<caller, thread, seen, commit>>
vars == <<cfg, prog, hist, packet, threads>>

----------------------------------------------------------------------------
(* Bounds of the exploration *)

\* number of calls made on one instance
MaxSteps == 3
\* calls the caller makes beside the render thread
MaxCalls == 4

----------------------------------------------------------------------------
(* Program constants *)

DDRAM_SIZE == 80
COLS == 5
Cells == 0 .. (DDRAM_SIZE - 1)

\* self.row_visible_address = [0x00, 0x28, 0x14, 0x40]
HomeTable == [x \in 0..3 |-> CASE x = 0 -> 0 [] x = 1 -> 40 [] x = 2 -> 20 [] x = 3 -> 64]

\* [0x00] * 8
BlankGlyph == <<0, 0, 0, 0, 0, 0, 0, 0>>
\* [0x1F] * 8
BlockGlyph == <<31, 31, 31, 31, 31, 31, 31, 31>>
\* [0x00, 0x00, 0x00, 0x00, 0x00, 0x00, 0x00, 0x1F]
UnderlineGlyph == <<0, 0, 0, 0, 0, 0, 0, 31>>
\* [0x00] * cols : the cell of a freshly constructed grid
FreshCell == [i \in 1..COLS |-> 0]

\* self.cgrom
CGROM ==
    (32 :> <<0, 0, 0, 0, 0, 0, 0, 0>>)
 @@ (33 :> <<4, 4, 4, 4, 0, 4, 0, 0>>)
 @@ (34 :> <<10, 10, 10, 0, 0, 0, 0, 0>>)
 @@ (35 :> <<10, 10, 31, 10, 31, 10, 10, 0>>)
 @@ (36 :> <<4, 15, 20, 14, 5, 30, 4, 0>>)
 @@ (37 :> <<24, 25, 2, 4, 8, 19, 3, 0>>)
 @@ (38 :> <<12, 18, 12, 22, 25, 22, 13, 0>>)
 @@ (39 :> <<6, 6, 3, 0, 0, 0, 0, 0>>)
 @@ (40 :> <<1, 2, 4, 4, 4, 2, 1, 0>>)
 @@ (41 :> <<4, 2, 1, 1, 1, 2, 4, 0>>)
 @@ (42 :> <<0, 4, 21, 14, 14, 21, 4, 0>>)
 @@ (43 :> <<0, 4, 4, 31, 4, 4, 0, 0>>)
 @@ (44 :> <<0, 0, 0, 0, 4, 4, 2, 0>>)
 @@ (45 :> <<0, 0, 0, 31, 0, 0, 0, 0>>)
 @@ (46 :> <<0, 0, 0, 0, 4, 0, 0, 0>>)
 @@ (47 :> <<0, 1, 2, 4, 8, 16, 0, 0>>)
 @@ (48 :> <<14, 17, 19, 21, 25, 17, 14, 0>>)
 @@ (49 :> <<4, 12, 4, 4, 4, 4, 14, 0>>)
 @@ (50 :> <<14, 17, 16, 12, 2, 17, 31, 0>>)
 @@ (51 :> <<31, 8, 4, 4, 4, 17, 14, 0>>)
 @@ (52 :> <<2, 6, 10, 18, 31, 2, 2, 0>>)
 @@ (53 :> <<31, 1, 15, 16, 16, 17, 14, 0>>)
 @@ (54 :> <<12, 2, 1, 15, 17, 17, 14, 0>>)
 @@ (55 :> <<31, 17, 16, 8, 4, 4, 4, 0>>)
 @@ (56 :> <<14, 17, 17, 14, 17, 17, 14, 0>>)
 @@ (57 :> <<14, 17, 17, 30, 16, 8, 6, 0>>)
 @@ (58 :> <<0, 4, 0, 0, 0, 4, 0, 0>>)
 @@ (59 :> <<0, 4, 0, 0, 0, 4, 4, 0>>)
 @@ (60 :> <<2, 4, 8, 16, 8, 4, 2, 0>>)
 @@ (61 :> <<0, 0, 31, 0, 31, 0, 0, 0>>)
 @@ (62 :> <<8, 4, 2, 1, 2, 4, 8, 0>>)
 @@ (63 :> <<14, 17, 16, 8, 4, 0, 4, 0>>)
 @@ (64 :> <<14, 17, 21, 21, 29, 1, 14, 0>>)
 @@ (65 :> <<14, 17, 17, 31, 17, 17, 17, 0>>)
 @@ (66 :> <<15, 17, 17, 15, 17, 17, 15, 0>>)
 @@ (67 :> <<14, 17, 1, 1, 1, 17, 14, 0>>)
 @@ (68 :> <<7, 9, 17, 17, 17, 9, 7, 0>>)
 @@ (69 :> <<31, 16, 16, 28, 16, 16, 31, 0>>)
 @@ (70 :> <<31, 16, 16, 28, 16, 16, 16, 0>>)
 @@ (71 :> <<14, 17, 16, 23, 17, 17, 15, 0>>)
 @@ (72 :> <<17, 17, 17, 31, 17, 17, 17, 0>>)
 @@ (73 :> <<14, 4, 4, 4, 4, 4, 14, 0>>)
 @@ (74 :> <<7, 2, 2, 2, 18, 18, 12, 0>>)
 @@ (75 :> <<17, 18, 20, 24, 20, 18, 17, 0>>)
 @@ (76 :> <<16, 16, 16, 16, 16, 16, 31, 0>>)
 @@ (77 :> <<17, 27, 21, 21, 17, 17, 17, 0>>)
 @@ (78 :> <<17, 25, 21, 19, 17, 17, 17, 0>>)
 @@ (79 :> <<14, 17, 17, 17, 17, 17, 14, 0>>)
 @@ (80 :> <<15, 17, 17, 15, 16, 16, 16, 0>>)
 @@ (81 :> <<14, 17, 17, 17, 21, 18, 13, 0>>)
 @@ (82 :> <<15, 17, 17, 15, 18, 17, 17, 0>>)
 @@ (83 :> <<15, 16, 16, 14, 1, 17, 14, 0>>)
 @@ (84 :> <<31, 4, 4, 4, 4, 4, 4, 0>>)
 @@ (85 :> <<17, 17, 17, 17, 17, 17, 14, 0>>)
 @@ (86 :> <<17, 17, 17, 17, 17, 10, 4, 0>>)
 @@ (87 :> <<17, 17, 17, 21, 21, 21, 10, 0>>)
 @@ (88 :> <<17, 17, 10, 4, 10, 17, 17, 0>>)
 @@ (89 :> <<17, 17, 10, 4, 4, 4, 4, 0>>)
 @@ (90 :> <<31, 1, 2, 4, 8, 16, 31, 0>>)
 @@ (91 :> <<14, 8, 8, 8, 8, 8, 14, 0>>)
 @@ (92 :> <<0, 16, 8, 4, 2, 1, 0, 0>>)
 @@ (93 :> <<14, 2, 2, 2, 2, 2, 14, 0>>)
 @@ (94 :> <<4, 10, 17, 0, 0, 0, 0, 0>>)
 @@ (95 :> <<0, 0, 0, 0, 0, 0, 0, 31>>)
 @@ (96 :> <<8, 4, 2, 0, 0, 0, 0, 0>>)
 @@ (97 :> <<0, 0, 14, 1, 15, 17, 15, 0>>)
 @@ (98 :> <<16, 16, 30, 17, 17, 17, 30, 0>>)
 @@ (99 :> <<0, 0, 14, 17, 16, 17, 14, 0>>)
 @@ (100 :> <<1, 1, 15, 17, 17, 17, 15, 0>>)
 @@ (101 :> <<0, 0, 14, 17, 31, 16, 14, 0>>)
 @@ (102 :> <<6, 9, 8, 28, 8, 8, 8, 0>>)
 @@ (103 :> <<0, 15, 17, 17, 15, 1, 14, 0>>)
 @@ (104 :> <<16, 16, 30, 17, 17, 17, 17, 0>>)
 @@ (105 :> <<4, 0, 12, 4, 4, 4, 14, 0>>)
 @@ (106 :> <<2, 0, 6, 2, 2, 18, 18, 12>>)
 @@ (107 :> <<16, 16, 17, 18, 28, 18, 17, 0>>)
 @@ (108 :> <<12, 4, 4, 4, 4, 4, 14, 0>>)
 @@ (109 :> <<0, 0, 26, 21, 21, 21, 21, 0>>)
 @@ (110 :> <<0, 0, 30, 17, 17, 17, 17, 0>>)
 @@ (111 :> <<0, 0, 14, 17, 17, 17, 14, 0>>)
 @@ (112 :> <<0, 0, 15, 17, 17, 15, 16, 16>>)
 @@ (113 :> <<0, 0, 15, 17, 17, 15, 1, 1>>)
 @@ (114 :> <<0, 0, 11, 12, 8, 8, 8, 0>>)
 @@ (115 :> <<0, 0, 15, 16, 14, 1, 30, 0>>)
 @@ (116 :> <<4, 4, 14, 4, 4, 4, 3, 0>>)
 @@ (117 :> <<0, 0, 17, 17, 17, 17, 15, 0>>)
 @@ (118 :> <<0, 0, 17, 17, 17, 10, 4, 0>>)
 @@ (119 :> <<0, 0, 17, 17, 21, 21, 10, 0>>)
 @@ (120 :> <<0, 0, 17, 10, 4, 10, 17, 0>>)
 @@ (121 :> <<0, 0, 17, 17, 15, 1, 14, 0>>)
 @@ (122 :> <<0, 0, 31, 2, 4, 8, 31, 0>>)
 @@ (123 :> <<2, 4, 4, 8, 4, 4, 2, 0>>)
 @@ (124 :> <<4, 4, 4, 0, 4, 4, 4, 0>>)
 @@ (125 :> <<8, 4, 4, 2, 4, 4, 8, 0>>)
 @@ (126 :> <<0, 0, 10, 21, 0, 0, 0, 0>>)
 @@ (127 :> <<0, 0, 0, 0, 0, 0, 0, 0>>)

----------------------------------------------------------------------------
(* Python values *)

PyStr(c) == 256 + c
IsInt(v) == v < 256

\* self.cgrom.get(code, [0x00] * 8) : a str key is never a key of the table
cgrom_get(code) == IF code \in DOMAIN CGROM THEN CGROM[code] ELSE BlankGlyph

\* (db >> i) & 0x1
Bit(db, i) == (db \div (2 ^ i)) % 2

----------------------------------------------------------------------------
(* The object as one record, and the result of a call on it *)

Self ==
    [ lines |-> lines, segments |-> segments,
      ddram |-> ddram, row_visible_address |-> row_visible_address,
      ddram_pointer |-> ddram_pointer, display_on |-> display_on,
      cursor_ptr |-> cursor_ptr, cursor_active |-> cursor_active,
      cursor_visible |-> cursor_visible, cursor_blinking |-> cursor_blinking,
      entry_mode_dir |-> entry_mode_dir, entry_mode_shift |-> entry_mode_shift,
      cursor_char |-> cursor_char, grid |-> grid, fset |-> fset,
      running |-> running, cgram_address |-> cgram_address,
      ret |-> << >>, exc |-> "", fired |-> << >>, driven |-> << >> ]

Returns(s, v) == [s EXCEPT !.ret = <<v>>]
Raises(s, e)  == [s EXCEPT !.exc = e]
Fires(s, name) == [s EXCEPT !.fired = Append(@, name)]

----------------------------------------------------------------------------
(* Addressing and entry-mode engine *)

\* mutant: the pointer and the table are not taken modulo 80
update_entry_mode_no_wrap(s) ==
    LET d  == IF s.entry_mode_dir THEN 1 ELSE -1
        s1 == [s EXCEPT !.ddram_pointer = @ + d]
    IN  IF s.entry_mode_shift
        THEN [s1 EXCEPT !.row_visible_address =
                            [x \in 0..3 |-> s.row_visible_address[x] + d]]
        ELSE s1

\* mutant: the modulus is one short, 79 instead of 80
update_entry_mode_mod_79(s) ==
    LET d  == IF s.entry_mode_dir THEN 1 ELSE -1
        s1 == [s EXCEPT !.ddram_pointer = (@ + d) % 79]
    IN  IF s.entry_mode_shift
        THEN [s1 EXCEPT !.row_visible_address =
                            [x \in 0..3 |-> (s.row_visible_address[x] + d) % 80]]
        ELSE s1

\* mutant: the shift moves the entries of the display's own lines only
update_entry_mode_shifts_visible_rows(s) ==
    LET d  == IF s.entry_mode_dir THEN 1 ELSE -1
        s1 == [s EXCEPT !.ddram_pointer = (@ + d) % 80]
    IN  IF s.entry_mode_shift
        THEN [s1 EXCEPT !.row_visible_address =
                            [x \in 0..3 |-> IF x < s.lines
                                            THEN (s.row_visible_address[x] + d) % 80
                                            ELSE s.row_visible_address[x]]]
        ELSE s1

update_entry_mode(s) ==
    LET d  == IF s.entry_mode_dir THEN 1 ELSE -1
        s1 == [s EXCEPT !.ddram_pointer = (@ + d) % 80]
    IN  IF s.entry_mode_shift
        THEN [s1 EXCEPT !.row_visible_address =
                            [x \in 0..3 |-> (s.row_visible_address[x] + d) % 80]]
        ELSE s1

\* mutant: the display shift moves the table the other way
shift_display_table_reversed(s, display_shift, shift_right) ==
    IF display_shift
    THEN LET d == IF shift_right THEN 1 ELSE -1
         IN  [s EXCEPT !.row_visible_address =
                           [x \in 0..3 |-> (s.row_visible_address[x] + d) % 80]]
    ELSE LET d == IF shift_right THEN 1 ELSE -1
         IN  [s EXCEPT !.ddram_pointer = (@ + d) % 80]

\* mutant: the cursor move drags the table along
shift_display_cursor_drags_table(s, display_shift, shift_right) ==
    IF display_shift
    THEN LET d == IF shift_right THEN -1 ELSE 1
         IN  [s EXCEPT !.row_visible_address =
                           [x \in 0..3 |-> (s.row_visible_address[x] + d) % 80]]
    ELSE LET d == IF shift_right THEN 1 ELSE -1
         IN  [s EXCEPT !.ddram_pointer = (@ + d) % 80,
                       !.row_visible_address =
                           [x \in 0..3 |-> (s.row_visible_address[x] + d) % 80]]

shift_display(s, display_shift, shift_right) ==
    IF display_shift
    THEN LET d == IF shift_right THEN -1 ELSE 1
         IN  [s EXCEPT !.row_visible_address =
                           [x \in 0..3 |-> (s.row_visible_address[x] + d) % 80]]
    ELSE LET d == IF shift_right THEN 1 ELSE -1
         IN  [s EXCEPT !.ddram_pointer = (@ + d) % 80]

\* the loop of the multi-line branch, from entry x on
RECURSIVE cursor_scan(_, _, _)
cursor_scan(s, x, cur) ==
    IF x > 3 THEN cur
    ELSE cursor_scan(s, x + 1,
            IF s.ddram_pointer >= s.row_visible_address[x]
            THEN <<x, s.ddram_pointer - s.row_visible_address[x]>>
            ELSE cur)

\* mutant: the scan stops at the first entry that is <= the pointer
set_cursor_ptr_first_match(s) ==
    LET S == { x \in 0..3 : s.ddram_pointer >= s.row_visible_address[x] }
        f == CHOOSE x \in S : \A y \in S : x <= y
    IN  IF s.lines = 1
        THEN [s EXCEPT !.cursor_ptr = <<0, s.ddram_pointer - s.row_visible_address[0]>>]
        ELSE IF S # {}
        THEN [s EXCEPT !.cursor_ptr = <<f, s.ddram_pointer - s.row_visible_address[f]>>]
        ELSE s

set_cursor_ptr(s) ==
    IF s.lines = 1
    THEN [s EXCEPT !.cursor_ptr = <<0, s.ddram_pointer - s.row_visible_address[0]>>]
    ELSE IF s.lines > 1
    THEN [s EXCEPT !.cursor_ptr = cursor_scan(s, 0, s.cursor_ptr)]
    ELSE s

\* update_cursor up to its call of set_cursor_ptr
update_cursor_head(s) ==
    LET s1 == [s EXCEPT !.cursor_char = IF s.cursor_blinking THEN BlockGlyph ELSE BlankGlyph]
    IN  IF s.cursor_blinking
        THEN [s1 EXCEPT !.cursor_visible = ~ @]
        ELSE s1

update_cursor(s) == set_cursor_ptr(update_cursor_head(s))

----------------------------------------------------------------------------
(* Projection of DDRAM on the grid *)

\* grid[x][y] = values[x][y] for x in range(lines), y in range(segments): the
\* cells are stored in that order and the first one the grid does not have
\* raises IndexError, the cells stored before it staying stored
grid_store(s, values) ==
    LET R == Cardinality(DOMAIN s.grid)
        C == Cardinality(DOMAIN s.grid[0])
        last_x == IF s.segments > C THEN 0
                  ELSE (IF s.lines < R THEN s.lines ELSE R) - 1
        ncols  == IF s.segments < C THEN s.segments ELSE C
        s1 == [s EXCEPT !.grid =
                  [x \in DOMAIN s.grid |-> [y \in DOMAIN s.grid[x] |->
                      IF x <= last_x /\ y < ncols THEN values[x][y] ELSE s.grid[x][y]]]]
    IN  IF s.segments > C \/ s.lines > R THEN Raises(s1, "IndexError") ELSE s1

map_ddram(s) ==
    grid_store(s,
        [x \in 0 .. (s.lines - 1) |->
            [y \in 0 .. (s.segments - 1) |->
                cgrom_get(s.ddram[(s.row_visible_address[x] + y) % 80])]])

clear_display(s) ==
    grid_store(s,
        [x \in 0 .. (s.lines - 1) |-> [y \in 0 .. (s.segments - 1) |-> BlankGlyph]])

\* update_display(lines=l, segments=g): the grid is not rebuilt
update_display(s, l, g) == [s EXCEPT !.lines = l, !.segments = g]

----------------------------------------------------------------------------
(* Render thread: start(), stop() and one pass of the loop of run() *)

start(s) == IF ~ s.running THEN [s EXCEPT !.running = TRUE] ELSE s

stop(s) == IF s.running THEN [s EXCEPT !.running = FALSE] ELSE s

\* mutant: with the display off the pass leaves the grid as it is
run_pass_keeps_grid(s) ==
    IF s.display_on THEN map_ddram(update_cursor(s)) ELSE s

\* the body of `while self.running`, drawing left out
run_pass(s) ==
    IF s.display_on THEN map_ddram(update_cursor(s)) ELSE clear_display(s)

----------------------------------------------------------------------------
(* Instruction methods *)

\* mutant: DDRAM is filled with 0x00, the value of the constructor
clear_zero_fill(s) == [s EXCEPT !.ddram = [a \in Cells |-> 0]]

clear(s) == [s EXCEPT !.ddram = [a \in Cells |-> 32]]

\* mutant: the table is not put back
return_home_pointer_only(s) == [s EXCEPT !.ddram_pointer = 0]

\* mutant: going home also puts the entry mode back to increment, no shift
return_home_resets_entry_mode(s) ==
    [s EXCEPT !.ddram_pointer = 0, !.row_visible_address = HomeTable,
              !.entry_mode_dir = TRUE, !.entry_mode_shift = FALSE]

return_home(s) ==
    [s EXCEPT !.ddram_pointer = 0, !.row_visible_address = HomeTable]

entry_mode_set(s, increment, shift) ==
    [s EXCEPT !.entry_mode_dir = increment, !.entry_mode_shift = shift]

\* mutant: cursor and blink are stored in each other's field
display_control_cursor_blink_swapped(s, display, cursor, blink) ==
    [s EXCEPT !.display_on = display, !.cursor_active = blink,
              !.cursor_visible = blink, !.cursor_blinking = cursor]

display_control(s, display, cursor, blink) ==
    [s EXCEPT !.display_on = display, !.cursor_active = cursor,
              !.cursor_visible = cursor, !.cursor_blinking = blink]

cursor_control(s, display_shift, shift_right) ==
    shift_display(s, display_shift, shift_right)

function_set(s, eight_bit_mode, two_lines, font_5x10) ==
    [s EXCEPT !.fset = <<eight_bit_mode, two_lines, font_5x10>>]

set_ddram_addr(s, addr) == [s EXCEPT !.ddram_pointer = addr % 80]

\* cgram_address is << >> while the attribute does not exist; in_cgram_mode is
\* set with it and read nowhere
set_cgram_addr(s, addr) == [s EXCEPT !.cgram_address = <<addr % 64>>]

\* data[0] : an int is not subscriptable; a str gives a str, bytes give an int
subscript0_ok(data) == data.t # "int"
subscript0(data) == IF data.t = "str" THEN PyStr(data.v) ELSE data.v

write_data(s, data) ==
    IF ~ subscript0_ok(data)
    THEN Raises(s, "TypeError")
    ELSE update_entry_mode([s EXCEPT !.ddram[s.ddram_pointer] = subscript0(data)])

\* mutant: the read empties the cell it returns
read_data_destructive(s) ==
    Returns(update_entry_mode([s EXCEPT !.ddram[s.ddram_pointer] = 0]),
            s.ddram[s.ddram_pointer])

read_data(s) ==
    Returns(update_entry_mode(s), s.ddram[s.ddram_pointer])

----------------------------------------------------------------------------
(* Instruction decoder *)

\* mutant: a cascade of plain ifs, every set bit takes its branch
decode_every_set_bit(db) ==
    LET names == <<"set_ddram_addr", "cgram_addr", "function_set", "cursor_control",
                   "display_control", "entry_mode_set", "return_home", "clear">>
        RECURSIVE from(_)
        from(i) == IF i > 8 THEN << >>
                   ELSE IF Bit(db, 8 - i) = 1 THEN <<names[i]>> \o from(i + 1)
                   ELSE from(i + 1)
    IN  IF db % 256 = 0 THEN <<"illegal">> ELSE from(1)

\* the if/elif cascade of command(): the branches taken for db, in order
decode(db) ==
    IF      Bit(db, 7) = 1 THEN <<"set_ddram_addr">>
    ELSE IF Bit(db, 6) = 1 THEN <<"cgram_addr">>
    ELSE IF Bit(db, 5) = 1 THEN <<"function_set">>
    ELSE IF Bit(db, 4) = 1 THEN <<"cursor_control">>
    ELSE IF Bit(db, 3) = 1 THEN <<"display_control">>
    ELSE IF Bit(db, 2) = 1 THEN <<"entry_mode_set">>
    ELSE IF Bit(db, 1) = 1 THEN <<"return_home">>
    ELSE IF Bit(db, 0) = 1 THEN <<"clear">>
    ELSE <<"illegal">>

\* mutant: the all-zero byte falls through to the clear instruction before raising
branch_illegal_clears(s, name, db) ==
    LET b(i) == Bit(db, i) = 1
        s1   == Fires(s, name)
    IN  CASE name = "set_ddram_addr"  -> set_ddram_addr(s1, db)
          [] name = "cgram_addr"      -> s1
          [] name = "function_set"    -> function_set(s1, b(4), b(3), b(2))
          [] name = "cursor_control"  -> cursor_control(s1, b(3), b(2))
          [] name = "display_control" -> display_control(s1, b(2), b(1), b(0))
          [] name = "entry_mode_set"  -> entry_mode_set(s1, b(1), b(0))
          [] name = "return_home"     -> return_home(s1)
          [] name = "clear"           -> clear(s1)
          [] name = "illegal"         -> Raises(clear(s1), "Warning")

\* mutant: entry_mode_set gets bit 0 as increment and bit 1 as shift
branch_entry_mode_bits_swapped(s, name, db) ==
    LET b(i) == Bit(db, i) = 1
        s1   == Fires(s, name)
    IN  CASE name = "set_ddram_addr"  -> set_ddram_addr(s1, db)
          [] name = "cgram_addr"      -> s1
          [] name = "function_set"    -> function_set(s1, b(4), b(3), b(2))
          [] name = "cursor_control"  -> cursor_control(s1, b(3), b(2))
          [] name = "display_control" -> display_control(s1, b(2), b(1), b(0))
          [] name = "entry_mode_set"  -> entry_mode_set(s1, b(0), b(1))
          [] name = "return_home"     -> return_home(s1)
          [] name = "clear"           -> clear(s1)
          [] name = "illegal"         -> Raises(s1, "Warning")

\* the body of one branch of the cascade
branch(s, name, db) ==
    LET b(i) == Bit(db, i) = 1
        s1   == Fires(s, name)
    IN  CASE name = "set_ddram_addr"  -> set_ddram_addr(s1, db)
          [] name = "cgram_addr"      -> s1
          [] name = "function_set"    -> function_set(s1, b(4), b(3), b(2))
          [] name = "cursor_control"  -> cursor_control(s1, b(3), b(2))
          [] name = "display_control" -> display_control(s1, b(2), b(1), b(0))
          [] name = "entry_mode_set"  -> entry_mode_set(s1, b(1), b(0))
          [] name = "return_home"     -> return_home(s1)
          [] name = "clear"           -> clear(s1)
          [] name = "illegal"         -> Raises(s1, "Warning")

RECURSIVE run_branches(_, _, _)
run_branches(s, names, db) ==
    IF names = << >> THEN s
    ELSE run_branches(branch(s, Head(names), db), Tail(names), db)

\* mutant: the instruction register is decoded whatever rw is
command_ignores_rw(s, rs, rw, db) ==
    IF rs = 1
    THEN IF rw = 1
         THEN LET s1 == read_data(s)
                  data == s1.ret[1]
              IN  IF IsInt(data)
                  THEN Returns(s1, data % 256)
                  ELSE Raises([s1 EXCEPT !.ret = << >>], "TypeError")
         ELSE write_data(s, [t |-> "int", v |-> db])
    ELSE Returns(run_branches(s, decode(db), db), 0)

command(s, rs, rw, db) ==
    IF rs = 1
    THEN IF rw = 1
         THEN LET s1 == read_data(s)
                  data == s1.ret[1]
              IN  IF IsInt(data)
                  THEN Returns(s1, data % 256)
                  ELSE Raises([s1 EXCEPT !.ret = << >>], "TypeError")
         ELSE write_data(s, [t |-> "int", v |-> db])
    ELSE IF rw = 1
         THEN Returns(s, 0)
         ELSE run_branches(s, decode(db), db)

----------------------------------------------------------------------------
(* HD44780Packet (hd44780_comps.py) *)

\* a | b for a, b in {0, 1}
Or1(a, b) == IF a = 1 \/ b = 1 THEN 1 ELSE 0

\* cls(rs, rw, e, *dbl) with dbl[i] = (db >> i) & 0x1
from_command(rs, rw, e, db) ==
    [rs |-> rs, rw |-> rw, e |-> e, db |-> [i \in 0..7 |-> (db \div (2 ^ i)) % 2]]

\* db |= (self.db[x] >> x) & 0x1 for x in range(8), from db = 0
to_command(p) ==
    LET RECURSIVE acc(_)
        acc(x) == IF x < 0 THEN 0
                  ELSE Or1(acc(x - 1), (p.db[x] \div (2 ^ x)) % 2)
    IN  <<p.rs, p.rw, acc(7)>>

----------------------------------------------------------------------------
(* HD44780Sim (hd44780_comps.py): one cycle of the bus coroutine *)

\* send(resp): while self.dut.e, the packet from_command(rs, re, e, resp) is
\* driven on the bus; with e low nothing is driven.  driven is << >> or the
\* packet driven; dut.re is taken to carry the rw line.
send(s, rs, rw, e, resp) ==
    IF e = 1 THEN [s EXCEPT !.driven = <<from_command(rs, rw, e, resp)>>] ELSE s

\* if resp: a return value of None or 0 is false
truthy(r) == r # << >> /\ r[1] # 0

\* the body of `while True` of run_coro for the bus lines (rs, rw, 1, db) at the
\* rising edge of e; e_send is the e line when send tests it
run_coro(s, rs, rw, db, e_send) ==
    LET cmd == to_command(from_command(rs, rw, 1, db))
        s1  == command(s, cmd[1], cmd[2], cmd[3])
    IN  IF s1.exc # "" THEN s1
        ELSE IF truthy(s1.ret) THEN send(s1, rs, rw, e_send, s1.ret[1])
        ELSE s1

----------------------------------------------------------------------------
(* Inputs *)

\* instruction bytes: every opcode class, with its parameter bits varied
InstrBytes ==
    { 0, 1, 2, 3, 4, 5, 6, 7, 8, 12, 14, 15, 16, 20, 24, 28, 31,
      32, 56, 64, 127, 128, 159, 168, 207, 255 }
\* bytes written through the data register
DataBytes == { 72, 32 }
\* arguments of a direct write_data call: 'H', b'H', b'\xff', 'A'
DataArgs ==
    { [t |-> "str", v |-> 72], [t |-> "bytes", v |-> 72], [t |-> "bytes", v |-> 255],
      [t |-> "str", v |-> 65] }
\* addresses of a direct set_ddram_addr call
Addrs == { 40 }
\* addresses of a direct set_cgram_addr call
CgramAddrs == { 72 }
\* (lines, segments) of an update_display call: as built, more lines, more of both
ResizeArgs == { <<1, 8>>, <<2, 8>>, <<2, 16>> }
\* data lines captured by the coroutine
BusBytes == { 0, 1, 72, 128 }
\* (lines, segments) of the constructor
Displays == { <<1, 8>>, <<2, 8>> }

----------------------------------------------------------------------------
(* State machine *)

Init ==
    /\ \E d \in Displays : lines = d[1] /\ segments = d[2]
    /\ ddram = [a \in Cells |-> 0]
    /\ row_visible_address = HomeTable
    /\ ddram_pointer = 0
    /\ display_on = FALSE
    /\ cursor_ptr = <<0, 0>>
    /\ cursor_active = FALSE
    /\ cursor_visible = FALSE
    /\ cursor_blinking = FALSE
    /\ entry_mode_dir = TRUE
    /\ entry_mode_shift = FALSE
    /\ cursor_char = UnderlineGlyph
    /\ grid = [x \in 0 .. (lines - 1) |-> [y \in 0 .. (segments - 1) |-> FreshCell]]
    /\ fset = << >>
    /\ running = FALSE
    /\ cgram_address = << >>
    /\ last = [op |-> "init", rs |-> -1, rw |-> -1, db |-> -1, t |-> ""]
    /\ ret = << >>
    /\ exc = ""
    /\ fired = << >>
    /\ driven = << >>
    /\ steps = 0
    /\ pre = Self
    /\ pkt = << >>
    /\ pkt_args = << >>
    /\ pkt_cmd = << >>
    /\ caller = [pc |-> "idle", x |-> 0, d |-> 0, shift |-> FALSE, n |-> 0]
    /\ thread = [pc |-> "none", x |-> 0, alive |-> FALSE]
    /\ seen = << >>
    /\ commit = [ptr |-> ddram_pointer, tbl |-> row_visible_address]

\* the object becomes s, the outcome of the call `call`
Becomes(s, call) ==
    /\ steps < MaxSteps
    /\ steps' = steps + 1
    /\ last' = call
    /\ pre' = Self
    /\ ddram' = s.ddram
    /\ row_visible_address' = s.row_visible_address
    /\ ddram_pointer' = s.ddram_pointer
    /\ display_on' = s.display_on
    /\ cursor_ptr' = s.cursor_ptr
    /\ cursor_active' = s.cursor_active
    /\ cursor_visible' = s.cursor_visible
    /\ cursor_blinking' = s.cursor_blinking
    /\ entry_mode_dir' = s.entry_mode_dir
    /\ entry_mode_shift' = s.entry_mode_shift
    /\ cursor_char' = s.cursor_char
    /\ grid' = s.grid
    /\ fset' = s.fset
    /\ running' = s.running
    /\ cgram_address' = s.cgram_address
    /\ lines' = s.lines
    /\ segments' = s.segments
    /\ ret' = s.ret
    /\ exc' = s.exc
    /\ fired' = s.fired
    /\ driven' = s.driven
    /\ UNCHANGED <<packet, threads>>

Call(op, rs, rw, db, t) == [op |-> op, rs |-> rs, rw |-> rw, db |-> db, t |-> t]

\* lcd.command(0, 0, db)
CommandInstr ==
    \E db \in InstrBytes : Becomes(command(Self, 0, 0, db), Call("command", 0, 0, db, "int"))
\* lcd.command(0, 1, db)
CommandBusy ==
    \E db \in {0, 255} : Becomes(command(Self, 0, 1, db), Call("command", 0, 1, db, "int"))
\* lcd.command(1, 0, db)
CommandWrite ==
    \E db \in DataBytes : Becomes(command(Self, 1, 0, db), Call("command", 1, 0, db, "int"))
\* lcd.command(1, 1, db)
CommandRead ==
    \E db \in {0} : Becomes(command(Self, 1, 1, db), Call("command", 1, 1, db, "int"))
\* lcd.write_data(data)
WriteData ==
    \E data \in DataArgs : Becomes(write_data(Self, data), Call("write_data", -1, -1, data.v, data.t))
\* lcd.read_data()
ReadData == Becomes(read_data(Self), Call("read_data", -1, -1, -1, ""))
\* lcd.clear()
Clear == Becomes(clear(Self), Call("clear", -1, -1, -1, ""))
\* lcd.return_home()
ReturnHome == Becomes(return_home(Self), Call("return_home", -1, -1, -1, ""))
\* lcd.map_ddram()
MapDdram == Becomes(map_ddram(Self), Call("map_ddram", -1, -1, -1, ""))
\* lcd.clear_display()
ClearDisplay == Becomes(clear_display(Self), Call("clear_display", -1, -1, -1, ""))
\* lcd.update_cursor()
UpdateCursor == Becomes(update_cursor(Self), Call("update_cursor", -1, -1, -1, ""))

\* lcd.set_ddram_addr(addr)
SetDdramAddr ==
    \E addr \in Addrs : Becomes(set_ddram_addr(Self, addr), Call("set_ddram_addr", -1, -1, addr, ""))
\* lcd.cursor_control(display_shift, shift_right); db keeps the two arguments as bits 3 and 2
CursorControl ==
    \E ds \in BOOLEAN, sr \in BOOLEAN :
        Becomes(cursor_control(Self, ds, sr),
                Call("cursor_control", -1, -1, (IF ds THEN 8 ELSE 0) + (IF sr THEN 4 ELSE 0), ""))
\* lcd.set_cgram_addr(addr)
SetCgramAddr ==
    \E addr \in CgramAddrs : Becomes(set_cgram_addr(Self, addr), Call("set_cgram_addr", -1, -1, addr, ""))
\* lcd.start()
Start == Becomes(start(Self), Call("start", -1, -1, -1, ""))
\* lcd.stop()
Stop == Becomes(stop(Self), Call("stop", -1, -1, -1, ""))
\* one pass of the loop of run(), which runs while self.running
RunPass == running /\ Becomes(run_pass(Self), Call("run_pass", -1, -1, -1, ""))

Next ==
    \/ CommandInstr
    \/ CommandBusy
    \/ CommandWrite
    \/ CommandRead
    \/ WriteData
    \/ ReadData
    \/ Clear
    \/ ReturnHome
    \/ MapDdram
    \/ ClearDisplay
    \/ UpdateCursor
    \/ SetDdramAddr
    \/ CursorControl
    \/ SetCgramAddr
    \/ Start
    \/ Stop
    \/ RunPass

Spec == Init /\ [][Next]_vars

----------------------------------------------------------------------------
(* The same object with update_display(lines=..., segments=...) among its calls *)

\* lcd.update_display(lines=l, segments=g)
UpdateDisplay ==
    \E d \in ResizeArgs :
        Becomes(update_display(Self, d[1], d[2]), Call("update_display", -1, -1, -1, ""))

NextResize ==
    \/ UpdateDisplay
    \/ MapDdram
    \/ ClearDisplay
    \/ WriteData
    \/ CommandInstr
    \/ Start
    \/ RunPass

SpecResize == Init /\ [][NextResize]_vars

----------------------------------------------------------------------------
(* Packets: HD44780Packet.from_command(...) and .to_command() on its result *)

FromCommand ==
    /\ pkt = << >>
    /\ \E rs \in {0, 1}, rw \in {0, 1}, e \in {0, 1}, db \in 0..255 :
          /\ pkt' = <<from_command(rs, rw, e, db)>>
          /\ pkt_args' = <<rs, rw, e, db>>
    /\ UNCHANGED <<cfg, prog, hist, threads, pkt_cmd>>

ToCommand ==
    /\ pkt # << >>
    /\ pkt_cmd = << >>
    /\ pkt_cmd' = <<to_command(pkt[1])>>
    /\ UNCHANGED <<cfg, prog, hist, threads, pkt, pkt_args>>

NextPacket == FromCommand \/ ToCommand

SpecPacket == Init /\ [][NextPacket]_vars

----------------------------------------------------------------------------
(* The object behind the bus: cycles of run_coro among direct calls *)

\* one cycle of run_coro; t keeps the e line at the time of send
CoroCycle ==
    \E rs \in {0, 1}, rw \in {0, 1}, db \in BusBytes, e_send \in {0, 1} :
        Becomes(run_coro(Self, rs, rw, db, e_send),
                Call("run_coro", rs, rw, db, IF e_send = 1 THEN "e=1" ELSE "e=0"))

NextCoro ==
    \/ CoroCycle
    \/ WriteData
    \/ Clear
    \/ ReturnHome

SpecCoro == Init /\ [][NextCoro]_vars

----------------------------------------------------------------------------
(* The caller beside the render thread: start() runs run() in a thread and the
   statements of the two interleave, one statement a step.  No window event
   arrives, so the loop of run() ends through self.running alone. *)

\* what the thread reads of the pointer and the table at this moment
Read(what) ==
    [ what |-> what, ptr |-> ddram_pointer, tbl |-> row_visible_address,
      commit |-> commit,
      advancing |-> caller.shift /\ caller.pc \in {"ptr_mod", "tbl_step", "tbl_mod"},
      d |-> caller.d ]

\* the object becomes s, the caller c and the thread t, the thread having read sn
Runs(s, c, t, sn) ==
    /\ lines' = s.lines
    /\ segments' = s.segments
    /\ ddram' = s.ddram
    /\ row_visible_address' = s.row_visible_address
    /\ ddram_pointer' = s.ddram_pointer
    /\ display_on' = s.display_on
    /\ cursor_ptr' = s.cursor_ptr
    /\ cursor_active' = s.cursor_active
    /\ cursor_visible' = s.cursor_visible
    /\ cursor_blinking' = s.cursor_blinking
    /\ entry_mode_dir' = s.entry_mode_dir
    /\ entry_mode_shift' = s.entry_mode_shift
    /\ cursor_char' = s.cursor_char
    /\ grid' = s.grid
    /\ fset' = s.fset
    /\ running' = s.running
    /\ cgram_address' = s.cgram_address
    /\ caller' = c
    /\ thread' = t
    /\ seen' = sn
    /\ commit' = IF c.pc = "idle"
                 THEN [ptr |-> s.ddram_pointer, tbl |-> s.row_visible_address]
                 ELSE commit
    /\ UNCHANGED <<hist, packet>>

CanCall == caller.pc = "idle" /\ caller.n < MaxCalls
\* the caller enters a call at statement pc, or makes a call that is one step
Enters(pc) == [caller EXCEPT !.pc = pc, !.n = @ + 1]
Called == [caller EXCEPT !.n = @ + 1]
Returned == [caller EXCEPT !.pc = "idle"]

\* start(): if not self.running
CallStart ==
    /\ CanCall
    /\ Runs(Self, IF running THEN Called ELSE Enters("start_set"), thread, seen)
\* self.running = True
StartSet ==
    /\ caller.pc = "start_set"
    /\ Runs([Self EXCEPT !.running = TRUE], [caller EXCEPT !.pc = "start_spawn"], thread, seen)
\* self.thread = threading.Thread(target=self.run, daemon=True); self.thread.start()
StartSpawn ==
    /\ caller.pc = "start_spawn"
    /\ Runs(Self, Returned, [pc |-> "run_setup", x |-> 0, alive |-> TRUE], seen)

\* stop(): if self.running
CallStop ==
    /\ CanCall
    /\ Runs(Self, IF running THEN Enters("stop_set") ELSE Called, thread, seen)
\* self.running = False
StopSet ==
    /\ caller.pc = "stop_set"
    /\ Runs([Self EXCEPT !.running = FALSE], [caller EXCEPT !.pc = "stop_join"], thread, seen)
\* if self.thread and self.thread.is_alive(): self.thread.join()
StopJoin ==
    /\ caller.pc = "stop_join"
    /\ ~ thread.alive
    /\ Runs(Self, Returned, thread, seen)

\* display_control(display), its assignments as one step
CallDisplayControl ==
    /\ CanCall
    /\ \E display \in BOOLEAN :
          Runs(display_control(Self, display, FALSE, FALSE), Called, thread, seen)
\* entry_mode_set(increment, shift), its assignments as one step
CallEntryModeSet ==
    /\ CanCall
    /\ \E increment \in BOOLEAN, shift \in BOOLEAN :
          Runs(entry_mode_set(Self, increment, shift), Called, thread, seen)
\* read_data(): data = self.ddram[self.ddram_pointer], then update_entry_mode()
CallReadData ==
    /\ CanCall
    /\ Runs(Self, [Enters("ptr_step") EXCEPT !.d = IF entry_mode_dir THEN 1 ELSE -1,
                                             !.shift = entry_mode_shift],
            thread, seen)
\* cursor_control(display_shift, shift_right), which is shift_display
CallCursorControl ==
    /\ CanCall
    /\ \E display_shift \in BOOLEAN, shift_right \in BOOLEAN :
          Runs(Self,
               IF display_shift
               THEN [Enters("tbl_step") EXCEPT !.x = 0, !.shift = FALSE,
                                               !.d = IF shift_right THEN -1 ELSE 1]
               ELSE [Enters("ptr_step") EXCEPT !.shift = FALSE,
                                               !.d = IF shift_right THEN 1 ELSE -1],
               thread, seen)

\* self.ddram_pointer += 1, or -= 1
PtrStep ==
    /\ caller.pc = "ptr_step"
    /\ Runs([Self EXCEPT !.ddram_pointer = @ + caller.d],
            [caller EXCEPT !.pc = "ptr_mod"], thread, seen)
\* self.ddram_pointer %= 80, then the test of entry_mode_shift
PtrMod ==
    /\ caller.pc = "ptr_mod"
    /\ Runs([Self EXCEPT !.ddram_pointer = @ % 80],
            IF caller.shift THEN [caller EXCEPT !.pc = "tbl_step", !.x = 0] ELSE Returned,
            thread, seen)
\* self.row_visible_address[x] += 1, or -= 1
TblStep ==
    /\ caller.pc = "tbl_step"
    /\ Runs([Self EXCEPT !.row_visible_address[caller.x] = @ + caller.d],
            [caller EXCEPT !.pc = "tbl_mod"], thread, seen)
\* self.row_visible_address[x] %= 80, then the next x
TblMod ==
    /\ caller.pc = "tbl_mod"
    /\ Runs([Self EXCEPT !.row_visible_address[caller.x] = @ % 80],
            IF caller.x = 3 THEN Returned
            ELSE [caller EXCEPT !.pc = "tbl_step", !.x = @ + 1],
            thread, seen)

\* run(): the window is set up
RunSetup ==
    /\ thread.pc = "run_setup"
    /\ Runs(Self, caller, [thread EXCEPT !.pc = "run_set_running"], seen)
\* self.running = True
RunSetRunning ==
    /\ thread.pc = "run_set_running"
    /\ Runs([Self EXCEPT !.running = TRUE], caller, [thread EXCEPT !.pc = "loop_test"], seen)
\* while self.running
LoopTest ==
    /\ thread.pc = "loop_test"
    /\ Runs(Self, caller, [thread EXCEPT !.pc = IF running THEN "branch" ELSE "quit"], seen)
\* if self.display_on ... else: self.clear_display()
Branch ==
    /\ thread.pc = "branch"
    /\ IF display_on
       THEN Runs(Self, caller, [thread EXCEPT !.pc = "cursor", !.x = 0], seen)
       ELSE Runs(clear_display(Self), caller, [thread EXCEPT !.pc = "draw"], seen)
\* update_cursor(): its head, and set_cursor_ptr one table entry a step
CursorRead ==
    /\ thread.pc = "cursor"
    /\ LET s0 == IF thread.x = 0 THEN update_cursor_head(Self) ELSE Self
           x  == thread.x
           hit == [s0 EXCEPT !.cursor_ptr =
                      <<x, ddram_pointer - row_visible_address[x]>>]
       IN  IF lines = 1
           THEN Runs(hit, caller, [thread EXCEPT !.pc = "map", !.x = 0], <<Read("cursor")>>)
           ELSE Runs(IF ddram_pointer >= row_visible_address[x] THEN hit ELSE s0,
                     caller,
                     IF x = 3 THEN [thread EXCEPT !.pc = "map", !.x = 0]
                     ELSE [thread EXCEPT !.x = @ + 1],
                     <<Read("cursor")>>)
\* map_ddram(): row x of the grid
MapRow ==
    /\ thread.pc = "map"
    /\ LET x == thread.x IN
       Runs([Self EXCEPT !.grid[x] =
                [y \in 0 .. (segments - 1) |->
                    cgrom_get(ddram[(row_visible_address[x] + y) % 80])]],
            caller,
            IF x = lines - 1 THEN [thread EXCEPT !.pc = "draw"]
            ELSE [thread EXCEPT !.x = @ + 1],
            <<Read("map")>>)
\* self.draw() and the empty event queue
Draw ==
    /\ thread.pc = "draw"
    /\ Runs(Self, caller, [thread EXCEPT !.pc = "loop_test"], seen)
\* pygame.display.quit(): run() returns and the thread ends
Quit ==
    /\ thread.pc = "quit"
    /\ Runs(Self, caller, [thread EXCEPT !.pc = "none", !.alive = FALSE], seen)

CallerBegins ==
    \/ CallStart
    \/ CallStop
    \/ CallDisplayControl
    \/ CallEntryModeSet
    \/ CallReadData
    \/ CallCursorControl
CallerStep ==
    \/ StartSet
    \/ StartSpawn
    \/ StopSet
    \/ StopJoin
    \/ PtrStep
    \/ PtrMod
    \/ TblStep
    \/ TblMod
ThreadStep ==
    \/ RunSetup
    \/ RunSetRunning
    \/ LoopTest
    \/ Branch
    \/ CursorRead
    \/ MapRow
    \/ Draw
    \/ Quit

NextThreads == CallerBegins \/ CallerStep \/ ThreadStep

\* a caller inside a call goes on, and a live thread is scheduled
SpecThreads ==
    /\ Init
    /\ [][NextThreads]_vars
    /\ WF_vars(CallerStep)
    /\ WF_vars(ThreadStep)


----------------------------------------------------------------------------
(* Vocabulary of the properties *)

\* the call made last is command(0, 0, db) / command(1, 0, db) / command(1, 1, db)
IsInstr(l)     == l.op = "command" /\ l.rs = 0 /\ l.rw = 0
IsDataWrite(l) == l.op = "command" /\ l.rs = 1 /\ l.rw = 0
IsDataRead(l)  == l.op = "command" /\ l.rs = 1 /\ l.rw = 1

\* position of the most-significant set bit of b, for b in 1..255
MSB(b) == CHOOSE i \in 0..7 : b \div (2 ^ i) = 1

\* the operation the instruction set gives to each bit position
OperationOfBit(i) ==
    CASE i = 7 -> "set_ddram_addr"  [] i = 6 -> "cgram_addr"
      [] i = 5 -> "function_set"    [] i = 4 -> "cursor_control"
      [] i = 3 -> "display_control" [] i = 2 -> "entry_mode_set"
      [] i = 1 -> "return_home"     [] i = 0 -> "clear"

IsReturnHome(l) == l.op = "return_home" \/ (IsInstr(l) /\ l.db \in 1..255 /\ MSB(l.db) = 1)
IsClear(l)      == l.op = "clear" \/ (IsInstr(l) /\ l.db \in 1..255 /\ MSB(l.db) = 0)

\* pointer p moved one step in the direction of the entry mode
Advanced(p, increment) == IF increment THEN (IF p = 79 THEN 0 ELSE p + 1)
                                       ELSE (IF p = 0 THEN 79 ELSE p - 1)

AllSpaces(d) == \A a \in 0..79 : d[a] = 32
GridBlank(g) ==
    \A x \in 0 .. (lines - 1) : \A y \in 0 .. (segments - 1) : g[x][y] = <<0, 0, 0, 0, 0, 0, 0, 0>>

DisplayFlags(s) == <<s.display_on, s.cursor_active, s.cursor_visible, s.cursor_blinking>>
EntryFlags(s)   == <<s.entry_mode_dir, s.entry_mode_shift>>

----------------------------------------------------------------------------
(* C1: for every instruction byte b in 1..255, command(0, 0, b) takes exactly
   one branch of the decoder, the one of the most-significant set bit of b,
   and no lower set bit has an effect of its own: DDRAM changes only when the
   branch is clear, the pointer only under set_ddram_addr, cursor_control and
   return_home, the table only under cursor_control and return_home, and the
   entry-mode, display and function-set fields only under their own branch.
   The calls explored send the bytes of InstrBytes in every state reached; on
   the constructed object the same is stated of each byte of 1..255. *)
C1_OneBranchByMsb ==
    (IsInstr(last) /\ last.db \in 1..255) =>
        LET m == MSB(last.db) IN
        /\ fired = <<OperationOfBit(m)>>
        /\ exc = ""
        /\ (m # 0 => ddram = pre.ddram)
        /\ (m \notin {7, 4, 1} => ddram_pointer = pre.ddram_pointer)
        /\ (m \notin {4, 1} => row_visible_address = pre.row_visible_address)
        /\ (m # 2 => EntryFlags(Self) = EntryFlags(pre))
        /\ (m # 3 => DisplayFlags(Self) = DisplayFlags(pre))
        /\ (m # 5 => fset = pre.fset)
        /\ steps = 1 =>
              \A b \in 1..255 :
                  LET s == command(pre, 0, 0, b) IN
                  /\ s.fired = <<OperationOfBit(MSB(b))>>
                  /\ s.exc = ""
                  /\ (MSB(b) # 0 => s.ddram = pre.ddram)
                  /\ (MSB(b) \notin {4, 1} => s.row_visible_address = pre.row_visible_address)

\* 0x03 went to return_home alone, on a DDRAM that clear would have changed
C1_Witness ==
    /\ IsInstr(last) /\ last.db = 3
    /\ fired = <<"return_home">>
    /\ pre.ddram_pointer # 0
    /\ ddram_pointer = 0
    /\ ddram[0] = 72

(* C2: for every instruction byte b with bit 7 set, command(0, 0, b) sets the
   DDRAM pointer to (b mod 128) mod 80: only the lower 7 bits are the address. *)
C2_PointerFromLow7Bits ==
    (IsInstr(last) /\ last.db \in 128..255) =>
        ddram_pointer = (last.db % 128) % 80

(* C3: command(0, 0, 0x00) raises the illegal-instruction Warning, leaves every
   field of the object as it was, and every call made afterwards gives what it
   would have given on the object before the illegal call. *)
C3_IllegalInstructionIsInert ==
    (IsInstr(last) /\ last.db = 0) =>
        /\ exc = "Warning"
        /\ ret = << >>
        /\ Self = pre
        /\ \A b \in InstrBytes : command(Self, 0, 0, b) = command(pre, 0, 0, b)
        /\ command(Self, 1, 1, 0) = command(pre, 1, 1, 0)
        /\ \A d \in DataArgs : write_data(Self, d) = write_data(pre, d)

\* the illegal byte was sent to an object that is no longer in its initial state
C3_Witness ==
    /\ IsInstr(last) /\ last.db = 0
    /\ exc = "Warning"
    /\ pre.ddram_pointer # 0
    /\ pre.ddram[0] # 0
    /\ ddram_pointer = pre.ddram_pointer

(* C4: a data write command(1, 0, b) stores b at DDRAM[p], p the pointer before
   the call, then advances the pointer once in the direction of the entry mode,
   and returns nothing. *)
C4_DataWriteStoresByte ==
    IsDataWrite(last) =>
        /\ exc = ""
        /\ ret = << >>
        /\ ddram[pre.ddram_pointer] = last.db
        /\ ddram_pointer = Advanced(pre.ddram_pointer, pre.entry_mode_dir)

(* C5: a data read command(1, 1, _) returns what DDRAM[p] held before the call,
   p the pointer before the call, advances the pointer once in the direction
   of the entry mode and leaves DDRAM unchanged. *)
C5_DataReadReturnsCell ==
    IsDataRead(last) =>
        /\ exc = ""
        /\ ret = <<pre.ddram[pre.ddram_pointer]>>
        /\ ddram_pointer = Advanced(pre.ddram_pointer, pre.entry_mode_dir)
        /\ ddram = pre.ddram

(* C6: after any sequence of calls the DDRAM pointer and the four entries of
   the table are in 0..79, DDRAM has its 80 cells, and so the cell of a write
   or a read and every cell of the projection is a cell of DDRAM. *)
C6_AddressesInRange ==
    /\ ddram_pointer \in 0..79
    /\ DOMAIN row_visible_address = 0..3
    /\ \A x \in 0..3 : row_visible_address[x] \in 0..79
    /\ DOMAIN ddram = 0..79
    /\ \A x \in 0 .. (lines - 1) : \A y \in 0 .. (segments - 1) :
           (row_visible_address[x] + y) % 80 \in DOMAIN ddram

\* a read or a write stepped the pointer and the table down from 0
C6_Witness ==
    /\ last.op \in {"write_data", "read_data", "command"}
    /\ pre.ddram_pointer = 0 /\ pre.row_visible_address[0] = 0
    /\ ddram_pointer = 79
    /\ row_visible_address[0] = 79

(* C7: return_home(), called directly or through command(0, 0, b) with bit 1 the
   most-significant set bit, leaves the pointer at 0 and the table at
   [0, 40, 20, 64]. *)
C7_ReturnHomeResets ==
    IsReturnHome(last) =>
        /\ ddram_pointer = 0
        /\ row_visible_address[0] = 0
        /\ row_visible_address[1] = 40
        /\ row_visible_address[2] = 20
        /\ row_visible_address[3] = 64

\* return_home acted on a moved pointer and a shifted table
C7_Witness ==
    /\ IsReturnHome(last)
    /\ pre.ddram_pointer # 0
    /\ pre.row_visible_address[0] # 0
    /\ ddram_pointer = 0
    /\ row_visible_address[1] = 40

(* C8: after clear() the 80 cells of DDRAM hold 0x20 and the projection of that
   DDRAM, map_ddram(), gives the all-zero glyph at every (row, column). *)
C8_ClearBlanksDdramAndGrid ==
    /\ IsClear(last) =>
          /\ AllSpaces(ddram)
          /\ GridBlank(map_ddram(Self).grid)
    /\ (last.op = "map_ddram" /\ AllSpaces(pre.ddram)) => GridBlank(grid)

\* clear acted, display on, on a DDRAM whose projection showed a character
C8_Witness ==
    /\ IsClear(last)
    /\ display_on
    /\ pre.ddram[0] = 72
    /\ ~ GridBlank(map_ddram(pre).grid)
    /\ GridBlank(map_ddram(Self).grid)

(* C9: after clear() the table is [0, 40, 20, 64] and the pointer is 0. *)
C9_ClearResetsAddressing ==
    IsClear(last) =>
        /\ ddram_pointer = 0
        /\ row_visible_address[0] = 0
        /\ row_visible_address[1] = 40
        /\ row_visible_address[2] = 20
        /\ row_visible_address[3] = 64

(* C10: with shift-on-write set, every data write command(1, 0, b) and data
   read command(1, 1, _) moves the pointer and each of the four table entries
   by the same step mod 80, +1 when increment is set and -1 otherwise; with it
   clear, writes and reads leave the table unchanged. *)
C10_WriteReadShiftTable ==
    (IsDataWrite(last) \/ IsDataRead(last)) =>
        IF pre.entry_mode_shift
        THEN /\ ddram_pointer = Advanced(pre.ddram_pointer, pre.entry_mode_dir)
             /\ \A x \in 0..3 :
                   row_visible_address[x] =
                       Advanced(pre.row_visible_address[x], pre.entry_mode_dir)
        ELSE row_visible_address = pre.row_visible_address

----------------------------------------------------------------------------
(* Vocabulary of the properties, continued *)

\* cursor_control, called directly or through command(0, 0, b) with bit 4 the
\* most-significant set bit; display_shift is bit 3 and shift_right bit 2 of db
IsCursorControl(l) == l.op = "cursor_control" \/ (IsInstr(l) /\ l.db \in 16..31)
DisplayShiftArg(l) == (l.db \div 8) % 2 = 1
ShiftRightArg(l)   == (l.db \div 4) % 2 = 1
IsDisplayControl(l) == IsInstr(l) /\ l.db \in 8..15
IsEntryModeSet(l)   == IsInstr(l) /\ l.db \in 4..7
IsBusyRead(l)       == l.op = "command" /\ l.rs = 0 /\ l.rw = 1

\* the call made last went through update_entry_mode
HasAdvanced ==
    \/ last.op = "read_data"
    \/ IsDataRead(last)
    \/ (last.op = "write_data" /\ exc = "")

\* the object s after n advances of update_entry_mode, stopped by a pointer out of range
RECURSIVE Advances(_, _)
Advances(s, n) ==
    IF n = 0 THEN s
    ELSE LET s1 == update_entry_mode(s)
         IN  IF s1.ddram_pointer \in 0..79 THEN Advances(s1, n - 1) ELSE s1

\* the glyph the character ROM gives a cell value: codes 0x20..0x7F have one
GlyphOf(v) == IF v \in 32..127 THEN CGROM[v] ELSE <<0, 0, 0, 0, 0, 0, 0, 0>>
\* the grid g shows DDRAM d through the table tbl
Shows(g, d, tbl) ==
    \A x \in 0 .. (lines - 1) : \A y \in 0 .. (segments - 1) :
        g[x][y] = GlyphOf(d[(tbl[x] + y) % 80])

----------------------------------------------------------------------------
(* C11: cursor_control(display_shift=true, shift_right=true) takes 1 mod 80 off
   each of the four table entries, cursor_control(display_shift=true,
   shift_right=false) adds 1 mod 80 to each; the pointer is unchanged. *)
C11_DisplayShiftMovesTable ==
    (IsCursorControl(last) /\ DisplayShiftArg(last)) =>
        /\ \A x \in 0..3 :
              row_visible_address[x] =
                  Advanced(pre.row_visible_address[x], ~ ShiftRightArg(last))
        /\ ddram_pointer = pre.ddram_pointer

\* a shift right took the table from home to [79, 39, 19, 63] under a moved pointer
C11_Witness ==
    /\ IsCursorControl(last) /\ DisplayShiftArg(last) /\ ShiftRightArg(last)
    /\ pre.row_visible_address[0] = 0
    /\ row_visible_address[0] = 79 /\ row_visible_address[1] = 39
    /\ row_visible_address[2] = 19 /\ row_visible_address[3] = 63
    /\ ddram_pointer # 0

(* C12: cursor_control(display_shift=false, shift_right) moves the pointer
   alone, by +1 mod 80 when shift_right is set and by -1 mod 80 otherwise; the
   table and DDRAM are unchanged. *)
C12_CursorMoveMovesPointerOnly ==
    (IsCursorControl(last) /\ ~ DisplayShiftArg(last)) =>
        /\ ddram_pointer = Advanced(pre.ddram_pointer, ShiftRightArg(last))
        /\ row_visible_address = pre.row_visible_address
        /\ ddram = pre.ddram

\* a move left took the pointer from 0 to 79, under a shifted table and a written DDRAM
C12_Witness ==
    /\ IsCursorControl(last) /\ ~ DisplayShiftArg(last) /\ ~ ShiftRightArg(last)
    /\ pre.ddram_pointer = 0
    /\ ddram_pointer = 79
    /\ row_visible_address[0] # 0
    /\ ddram[0] # 0

(* C13: the advance made by a read or a write keeps the pointer in 0..79: from
   79 it goes to 0 when increment is set, from 0 to 79 when it is not, and 80
   advances in one direction bring the pointer back where it was. *)
C13_AdvanceWraps ==
    HasAdvanced =>
        /\ ddram_pointer \in 0..79
        /\ ddram_pointer = Advanced(pre.ddram_pointer, pre.entry_mode_dir)
        /\ (pre.ddram_pointer = 79 /\ pre.entry_mode_dir => ddram_pointer = 0)
        /\ (pre.ddram_pointer = 0 /\ ~ pre.entry_mode_dir => ddram_pointer = 79)
        /\ Advances(pre, 80).ddram_pointer = pre.ddram_pointer

\* a read at 79 in increment mode left the pointer at 0
C13_Witness ==
    /\ HasAdvanced
    /\ pre.ddram_pointer = 79 /\ pre.entry_mode_dir
    /\ ddram_pointer = 0

(* C14: on a 2-line display with the table at home, after set_ddram_addr(40)
   and write_data('A') the cursor position computed from the pointer and the
   table is row 1, column 0. *)
C14_SecondRowCursor ==
    ( /\ lines = 2
      /\ last.op = "write_data" /\ last.db = 65
      /\ pre.ddram_pointer = 40
      /\ pre.row_visible_address = HomeTable /\ row_visible_address = HomeTable ) =>
        set_cursor_ptr(Self).cursor_ptr = <<1, 0>>

(* C15: the cursor position computed by set_cursor_ptr depends on the pointer,
   the table and the line count alone: it is the one computed on the object
   that has the same three values and has never computed a cursor (the object
   the same calls reach when the earlier update_cursor calls are left out). *)
C15_CursorIsPureFunction ==
    set_cursor_ptr(Self).cursor_ptr =
        set_cursor_ptr([Self EXCEPT !.cursor_ptr = <<0, 0>>]).cursor_ptr

(* C16: the projection sets grid[x][y], for every row x and column y of the
   display, to the CGROM glyph of the value stored at
   DDRAM[(row_visible_address[x] + y) mod 80], the all-zero glyph when it has
   none; and after 'H' is written at address 0 from home, the projection has
   the glyph of 0x48 at grid[0][0]. *)
C16_ProjectionShowsDdram ==
    /\ (last.op = "map_ddram" \/ (last.op = "run_pass" /\ pre.display_on)) =>
           Shows(grid, pre.ddram, pre.row_visible_address)
    /\ ( /\ last.op = "write_data" \/ IsDataWrite(last)
         /\ last.db = 72
         /\ pre.ddram_pointer = 0
         /\ pre.row_visible_address = HomeTable /\ row_visible_address = HomeTable ) =>
           map_ddram(Self).grid[0][0] = CGROM[72]

(* C17: a pass of the render loop made while display_on is false leaves an
   all-blank grid and leaves DDRAM, the pointer and the table as they were;
   display_control leaves DDRAM and the table as they were, and a pass made
   while display_on is true shows that DDRAM. *)
C17_DisplayOffBlanksGridOnly ==
    /\ (last.op = "run_pass" /\ ~ pre.display_on) =>
          /\ GridBlank(grid)
          /\ ddram = pre.ddram
          /\ ddram_pointer = pre.ddram_pointer
          /\ row_visible_address = pre.row_visible_address
    /\ IsDisplayControl(last) =>
          /\ ddram = pre.ddram
          /\ row_visible_address = pre.row_visible_address
    /\ (last.op = "run_pass" /\ pre.display_on) =>
          /\ Shows(grid, pre.ddram, pre.row_visible_address)
          /\ ddram = pre.ddram

\* a pass with the display off blanked the grid while DDRAM holds a character
C17_Witness ==
    /\ last.op = "run_pass"
    /\ ~ display_on
    /\ ddram[0] = 72
    /\ ~ GridBlank(pre.grid)
    /\ GridBlank(grid)

(* C18: display_on is false after construction; display_control(display,
   cursor, blink) sets display_on, cursor_active and cursor_blinking to its
   three arguments (bits 2, 1, 0 of the byte), and no other call changes any
   of the three. *)
C18_DisplayFlagsOnlyByDisplayControl ==
    /\ steps = 0 => ~ display_on
    /\ IsDisplayControl(last) =>
          /\ display_on = ((last.db \div 4) % 2 = 1)
          /\ cursor_active = ((last.db \div 2) % 2 = 1)
          /\ cursor_blinking = (last.db % 2 = 1)
          /\ \A d \in BOOLEAN, c \in BOOLEAN, b \in BOOLEAN :
                LET s == display_control(pre, d, c, b) IN
                s.display_on = d /\ s.cursor_active = c /\ s.cursor_blinking = b
    /\ ~ IsDisplayControl(last) =>
          /\ display_on = pre.display_on
          /\ cursor_active = pre.cursor_active
          /\ cursor_blinking = pre.cursor_blinking

\* display_control(True, True, False) acted on the flags of the constructor
C18_Witness ==
    /\ IsDisplayControl(last) /\ last.db = 14
    /\ ~ pre.display_on /\ ~ pre.cursor_active
    /\ display_on /\ cursor_active /\ ~ cursor_blinking

(* C19: command(0, 1, db) returns 0 for every db and leaves every field of the
   object as it was. *)
C19_BusyReadIsInert ==
    IsBusyRead(last) =>
        /\ ret = <<0>>
        /\ exc = ""
        /\ fired = << >>
        /\ Self = pre

\* the instruction register was read, with a byte that would clear DDRAM if decoded
C19_Witness ==
    /\ IsBusyRead(last) /\ last.db = 255
    /\ ret = <<0>>
    /\ ddram_pointer # 0
    /\ ddram[0] = 72

(* C20: the entry-mode flags entry_mode_dir and entry_mode_shift change only
   through entry_mode_set: every other call leaves both as they were. *)
C20_EntryModeOnlyByEntryModeSet ==
    ~ IsEntryModeSet(last) =>
        /\ entry_mode_dir = pre.entry_mode_dir
        /\ entry_mode_shift = pre.entry_mode_shift

\* return_home acted on an object in decrement-and-shift mode and left the mode
C20_Witness ==
    /\ IsReturnHome(last)
    /\ ~ pre.entry_mode_dir /\ pre.entry_mode_shift
    /\ pre.ddram_pointer # 0
    /\ ~ entry_mode_dir /\ entry_mode_shift

----------------------------------------------------------------------------
(* Vocabulary of the properties, continued *)

\* bit i of the byte of the call l, as a boolean
BitOf(l, i) == (l.db \div (2 ^ i)) % 2 = 1
\* the table entries that are <= the pointer, and the last of them in index order
EntriesAtOrBelow(tbl, p) == { x \in 0..3 : tbl[x] <= p }
LastOf(S) == CHOOSE x \in S : \A y \in S : y <= x
\* a data write, through write_data or command(1, 0, b)
IsWrite(l) == l.op = "write_data" \/ IsDataWrite(l)

(* C21: every instruction byte whose most-significant set bit is bit 6 or
   bit 5 is accepted without error and its setting is recorded (the CGRAM
   address, db mod 64, for bit 6; the three function_set arguments, bits 4, 3
   and 2, for bit 5), and it leaves DDRAM, the pointer, the table, the
   entry-mode flags and the display flags unchanged. *)
C21_CgramAndFunctionSetRecorded ==
    (IsInstr(last) /\ last.db \in 32..127) =>
        /\ exc = ""
        /\ last.db >= 64 => cgram_address = <<last.db % 64>>
        /\ last.db < 64 => fset = <<BitOf(last, 4), BitOf(last, 3), BitOf(last, 2)>>
        /\ ddram = pre.ddram
        /\ ddram_pointer = pre.ddram_pointer
        /\ row_visible_address = pre.row_visible_address
        /\ EntryFlags(Self) = EntryFlags(pre)
        /\ DisplayFlags(Self) = DisplayFlags(pre)

(* C24: on a display with more than one line, when at least one table entry is
   <= the pointer, recomputing the cursor gives the row of the last such entry
   in index order 0, 1, 2, 3 and the column pointer minus that entry. *)
C24_CursorScanLastMatch ==
    LET S == EntriesAtOrBelow(row_visible_address, ddram_pointer)
        expected == <<LastOf(S), ddram_pointer - row_visible_address[LastOf(S)]>>
    IN  (lines > 1 /\ S # {}) =>
            /\ set_cursor_ptr(Self).cursor_ptr = expected
            /\ last.op = "update_cursor" => cursor_ptr = expected

\* update_cursor on a 2-line display, pointer 40: entries 0, 40 and 20 qualify, row 2 is kept
C24_Witness ==
    /\ last.op = "update_cursor"
    /\ lines = 2
    /\ row_visible_address = HomeTable
    /\ ddram_pointer = 40
    /\ cursor_ptr = <<2, 20>>

(* C25: the decoder passes each operation its parameters from the stated bits:
   function_set(bit 4, bit 3, bit 2), cursor_control(bit 3, bit 2),
   display_control(bit 2, bit 1, bit 0), entry_mode_set(bit 1, bit 0), for
   every byte whose most-significant set bit selects the operation. *)
C25_DecoderPassesStatedBits ==
    LET Passed(l, s) ==
            CASE l.db \in 32..63 ->
                     function_set(s, BitOf(l, 4), BitOf(l, 3), BitOf(l, 2))
              [] l.db \in 16..31 -> cursor_control(s, BitOf(l, 3), BitOf(l, 2))
              [] l.db \in 8..15 ->
                     display_control(s, BitOf(l, 2), BitOf(l, 1), BitOf(l, 0))
              [] l.db \in 4..7 -> entry_mode_set(s, BitOf(l, 1), BitOf(l, 0))
    IN  /\ (IsInstr(last) /\ last.db \in 4..63) =>
              /\ Self = Passed(last, pre)
              /\ exc = ""
              /\ last.db \in 4..7 =>
                    entry_mode_dir = BitOf(last, 1) /\ entry_mode_shift = BitOf(last, 0)
              /\ last.db \in 32..63 =>
                    fset = <<BitOf(last, 4), BitOf(last, 3), BitOf(last, 2)>>
        /\ steps = 1 =>
              \A b \in 4..63 :
                  [command(pre, 0, 0, b) EXCEPT !.fired = << >>]
                      = Passed([db |-> b], pre)

\* byte 0x05 made the mode decrement-and-shift: bit 1 clear, bit 0 set
C25_Witness ==
    /\ IsInstr(last) /\ last.db = 5
    /\ pre.entry_mode_dir /\ ~ pre.entry_mode_shift
    /\ ~ entry_mode_dir /\ entry_mode_shift

(* C26: DDRAM always has the 80 cells 0..79; a data write changes no cell but
   the one at the pointer, and every call that is neither a data write nor
   clear leaves every cell unchanged. *)
C26_DdramChangesOnlyByWriteOrClear ==
    /\ DOMAIN ddram = 0..79
    /\ IsWrite(last) =>
          \A a \in 0..79 : a # pre.ddram_pointer => ddram[a] = pre.ddram[a]
    /\ ~ (IsWrite(last) \/ IsClear(last)) => ddram = pre.ddram

\* a write at pointer 40 changed cell 40 of a DDRAM that clear had filled
C26_Witness ==
    /\ IsWrite(last)
    /\ pre.ddram_pointer = 40
    /\ AllSpaces(pre.ddram)
    /\ ddram[40] # 32
    /\ ddram[39] = 32 /\ ddram[41] = 32

(* C27: in every reachable state the four table entries keep the spacing of
   the home table: entry 1, 2 and 3 are 40, 20 and 64 above entry 0, mod 80. *)
C27_TableKeepsSpacing ==
    /\ (row_visible_address[1] - row_visible_address[0]) % 80 = 40
    /\ (row_visible_address[2] - row_visible_address[0]) % 80 = 20
    /\ (row_visible_address[3] - row_visible_address[0]) % 80 = 64

\* a read in decrement-and-shift mode took the table from home to [79, 39, 19, 63]
C27_Witness ==
    /\ HasAdvanced
    /\ pre.entry_mode_shift /\ ~ pre.entry_mode_dir
    /\ pre.row_visible_address = HomeTable
    /\ row_visible_address[0] = 79 /\ row_visible_address[1] = 39
    /\ row_visible_address[2] = 19 /\ row_visible_address[3] = 63

(* C28: on a display with more than one line and the table at home, the
   recomputed cursor row is a row of the display: row < lines. *)
C28_CursorRowIsPhysical ==
    (lines > 1 /\ row_visible_address = HomeTable) =>
        set_cursor_ptr(Self).cursor_ptr[1] < lines

(* C30: the grid always has one cell per visible position, `lines` rows of
   `segments` cells, also after update_display(lines=..., segments=...), so
   map_ddram and clear_display store to existing cells only; update_display
   leaves DDRAM, the pointer, the table and the mode flags unchanged. *)
C30_GridMatchesDimensions ==
    /\ DOMAIN grid = 0 .. (lines - 1)
    /\ \A x \in DOMAIN grid : DOMAIN grid[x] = 0 .. (segments - 1)
    /\ last.op \in {"map_ddram", "clear_display", "run_pass"} => exc = ""
    /\ last.op = "update_display" =>
          /\ ddram = pre.ddram
          /\ ddram_pointer = pre.ddram_pointer
          /\ row_visible_address = pre.row_visible_address
          /\ EntryFlags(Self) = EntryFlags(pre)
          /\ DisplayFlags(Self) = DisplayFlags(pre)

(* C29: HD44780Packet round-trips the data byte: for every rs, rw, e in {0, 1}
   and every db in 0..255, from_command(rs, rw, e, db).to_command() is
   (rs, rw, db). *)
C29_PacketRoundTrip ==
    pkt_cmd # << >> => pkt_cmd[1] = <<pkt_args[1], pkt_args[2], pkt_args[4]>>

(* C22: after start() followed by stop(), in every interleaving of the caller
   with the render thread, the loop of run() eventually exits and stop()
   returns, with running false. *)
C22_StopReturns ==
    (caller.pc = "stop_set") ~>
        (caller.pc = "idle" /\ ~ thread.alive /\ ~ running)

(* C23: the render thread never reads a pointer outside 0..79, never reads a
   table of which only some entries have been shifted (the spacing of C27
   broken), and never reads an advanced pointer while the table of the same
   shifting advance is not shifted yet. *)
C23_RenderSeesWholeInstructions ==
    seen # << >> =>
        LET r == seen[1] IN
        /\ r.what = "cursor" => r.ptr \in 0..79
        /\ /\ (r.tbl[1] - r.tbl[0]) % 80 = 40
           /\ (r.tbl[2] - r.tbl[0]) % 80 = 20
           /\ (r.tbl[3] - r.tbl[0]) % 80 = 64
           /\ \A x \in 0..3 : r.tbl[x] \in 0..79
        /\ (r.what = "cursor" /\ r.advancing /\ r.ptr # r.commit.ptr) =>
              r.tbl = [x \in 0..3 |-> (r.commit.tbl[x] + r.d) % 80]

\* the byte carried by the data lines of the packet p
ByteOf(p) ==
    p.db[0] + 2 * p.db[1] + 4 * p.db[2] + 8 * p.db[3]
        + 16 * p.db[4] + 32 * p.db[5] + 64 * p.db[6] + 128 * p.db[7]

(* C31: in a cycle of run_coro, a captured read command (rw = 1, either
   register) has the byte command() returned driven on the bus through send,
   also when that byte is 0x00; a write command (rw = 0) drives nothing. *)
C31_ReadsAreDrivenBack ==
    last.op = "run_coro" =>
        /\ (last.rw = 1 /\ exc = "") =>
              /\ ret # << >>
              /\ driven # << >>
              /\ ByteOf(driven[1]) = ret[1]
        /\ last.rw = 0 => driven = << >>

====
